---------------------------- MODULE Spec2Model ----------------------------
(***************************************************************************)
(* Job Portal API (src/main.py, src/schemas.py).                           *)
(*                                                                         *)
(* The state is the three collections of the document store, the module    *)
(* level connection db (None or a database), the position of every worker  *)
(* that is inside submit_application, and the request / response pair of   *)
(* the handler that ran last.                                              *)
(*                                                                         *)
(* Python values:                                                          *)
(*   str        a sequence of one-character strings                        *)
(*   None       the sentinel None where a str is expected, and             *)
(*              [none |-> TRUE] in a document; str(None) = "None"          *)
(*   ObjectId   [oid |-> digits]         str(o) = [str |-> digits]         *)
(*   datetime   [dt |-> t]               isoformat = [str |-> <<"T",..>>]  *)
(*   dict       a function from field names to values                      *)
(*                                                                         *)
(* A Job carries the fields the handlers and the queries read; company_id, *)
(* employment_type, the salaries and the requirements are stored and       *)
(* returned untouched and are left out.  Texts are written over the        *)
(* letters a, b, c, x, A, B and the regex wildcard ".".  An identifier is  *)
(* OidLen binary digits where the store uses 24 hexadecimal digits.        *)
(* Limits are positive.                                                    *)
(***************************************************************************)
EXTENDS Integers, Sequences, FiniteSets, TLC

VARIABLES db, job, application, company, pc, local, request, response,
          storage_calls

vars == <<db, job, application, company, pc, local, request, response,
          storage_calls>>

---------------------------------------------------------------------------
(* Bounds of the model *)

MaxJobs == 2
MaxApplications == 2
MaxCompanies == 1
OidLen == 3

\* Two workers serve requests side by side.
Workers == {"w1", "w2"}

---------------------------------------------------------------------------
(* Python values *)

None == <<"<None>">>

\* Python truthiness of an Optional[str]: `if q:` is false for None and "".
Truthy(s) == s # None /\ s # <<>>

Min(a, b) == IF a < b THEN a ELSE b

\* seq[:n]
Take(seq, n) == SubSeq(seq, 1, Min(n, Len(seq)))

RECURSIVE Pow2(_)
Pow2(n) == IF n = 0 THEN 1 ELSE 2 * Pow2(n - 1)

HexDigits == {"0", "1"}

Digit(n) == IF n % 2 = 0 THEN "0" ELSE "1"

\* The digits of the n-th identifier the store hands out.
NthId(n) == [i \in 1..OidLen |-> Digit(n \div Pow2(OidLen - i))]

\* bson.ObjectId.is_valid: the right length, hexadecimal digits only.
ValidOid(s) == Len(s) = OidLen /\ \A i \in 1..Len(s) : s[i] \in HexDigits

\* bson.ObjectId(s); raises InvalidId unless ValidOid(s).
ObjectId(s) == [oid |-> s]

IsObjectId(v) == "oid" \in DOMAIN v
IsDatetime(v) == "dt" \in DOMAIN v
IsStr(v) == "str" \in DOMAIN v

IsNone(v) == "none" \in DOMAIN v

\* str(x): the digits of an ObjectId, the text "None" of None, the text of
\* a datetime with a blank where isoformat writes "T", a str itself.
Str(v) ==
    IF IsObjectId(v) THEN [str |-> v.oid]
    ELSE IF IsNone(v) THEN [str |-> <<"N", "o", "n", "e">>]
    ELSE IF IsDatetime(v) THEN [str |-> <<" ">> \o [i \in 1..v.dt |-> "1"]]
    ELSE v

TimeDigits(t) == [i \in 1..t |-> "1"]

\* datetime.isoformat()
IsoFormat(v) == [str |-> <<"T">> \o TimeDigits(v.dt)]

---------------------------------------------------------------------------
(* MongoDB query evaluation *)

Lower(c) == IF c = "A" THEN "a" ELSE IF c = "B" THEN "b" ELSE c

\* One pattern character against one subject character: "." is the regex
\* wildcard, every other character of the alphabet is a literal.
CharMatch(pc_, c, options) ==
    \/ pc_ = "."
    \/ IF options = "i" THEN Lower(pc_) = Lower(c) ELSE pc_ = c

\* {"$regex": pattern, "$options": options} on a string: an unanchored search.
RegexSearch(pattern, options, s) ==
    \E i \in 1..(Len(s) - Len(pattern) + 1) :
        \A k \in 1..Len(pattern) : CharMatch(pattern[k], s[i + k - 1], options)

IsArrayField(field) == field \in {"tags", "requirements"}

\* A regex condition on a field: on an array field, some element matches.
RegexMatch(doc, field, cond) ==
    IF IsArrayField(field)
    THEN \E i \in 1..Len(doc[field]) :
             RegexSearch(cond.regex, cond.options, doc[field][i])
    ELSE RegexSearch(cond.regex, cond.options, doc[field])

\* {"$in": values} on an array field: some element equals one of the values.
InMatch(doc, field, cond) ==
    \E i \in 1..Len(doc[field]) :
        \E k \in 1..Len(cond.in) : doc[field][i] = cond.in[k]

CondMatch(doc, field, cond) ==
    IF "eq" \in DOMAIN cond THEN doc[field] = cond.eq
    ELSE IF "in" \in DOMAIN cond THEN InMatch(doc, field, cond)
    ELSE RegexMatch(doc, field, cond)

\* {"$or": [{field: cond}, ...]}
OrMatch(doc, clauses) ==
    \E i \in 1..Len(clauses) :
        CondMatch(doc, clauses[i].field, clauses[i].cond)

\* A document against a filter: every key of the filter must hold.
Matches(doc, filter) ==
    \A key \in DOMAIN filter :
        IF key = "$or" THEN OrMatch(doc, filter[key])
        ELSE CondMatch(doc, key, filter[key])

RECURSIVE Select(_, _)
\* The documents of a collection that match a filter, in insertion order.
Select(coll, filter) ==
    IF coll = <<>> THEN <<>>
    ELSE IF Matches(Head(coll), filter)
         THEN <<Head(coll)>> \o Select(Tail(coll), filter)
         ELSE Select(Tail(coll), filter)

\* collection.find_one({"_id": oid}): a sequence of zero or one documents.
find_one(coll, oid) == Take(Select(coll, [_id |-> [eq |-> oid]]), 1)

---------------------------------------------------------------------------
(* database.py: the gateway of spec section 4.2 *)

\* get_documents(collection, filter, limit): up to limit matching documents
\* in storage order.
get_documents(coll, filter, limit) == Take(Select(coll, filter), limit)

\* create_document(collection, data): the collection after the insert; the
\* store assigns the identifier.
create_document(coll, data) ==
    Append(coll, data @@ ("_id" :> ObjectId(NthId(Len(coll) + 1))))

\* The identifier create_document returns: the new _id as a string.
inserted_id(coll) == Str(ObjectId(NthId(Len(coll) + 1)))

---------------------------------------------------------------------------
(* Requests and responses *)

Database == <<"database">>

NoneValue == [none |-> TRUE]

NoDiag == [database |-> "", database_url |-> "", database_name |-> "",
           connection_status |-> "", collections |-> <<>>]

Req(op) == [op |-> op, q |-> None, location |-> None, tag |-> None,
            limit |-> 0, job_id |-> None]

Resp(status) == [status |-> status, detail |-> "", items |-> <<>>,
                 id |-> None, diag |-> NoDiag]

\* raise HTTPException(status_code=status, detail=detail)
HTTPException(status, detail) == [Resp(status) EXCEPT !.detail = detail]

\* A handler that has not answered yet.
Pending == Resp(0)

Call(op, coll) == [op |-> op, coll |-> coll]

Respond(req, resp, calls) ==
    /\ request' = req
    /\ response' = resp
    /\ storage_calls' = calls

NotConfigured(req) ==
    /\ Respond(req, HTTPException(500, "Database not configured"), <<>>)
    /\ UNCHANGED <<db, job, application, company, pc, local>>

---------------------------------------------------------------------------
(* GET /jobs *)

DefaultJobLimit == 50
DefaultListLimit == 100

Clause(field, pattern) ==
    [field |-> field, cond |-> [regex |-> pattern, options |-> "i"]]

\* FilterQuery without the is_active condition.
FilterQuery_NoActive(q, location, tag) ==
    (IF Truthy(location)
     THEN ("location" :> [regex |-> location, options |-> "i"])
     ELSE <<>>)
    @@ (IF Truthy(tag) THEN ("tags" :> [in |-> <<tag>>]) ELSE <<>>)
    @@ (IF Truthy(q)
        THEN ("$or" :> << Clause("title", q), Clause("company_name", q),
                          Clause("description", q), Clause("tags", q) >>)
        ELSE <<>>)

\* FilterQuery whose q clause leaves the tags out.
FilterQuery_NoTagsClause(q, location, tag) ==
    ("is_active" :> [eq |-> TRUE])
    @@ (IF Truthy(location)
        THEN ("location" :> [regex |-> location, options |-> "i"])
        ELSE <<>>)
    @@ (IF Truthy(tag) THEN ("tags" :> [in |-> <<tag>>]) ELSE <<>>)
    @@ (IF Truthy(q)
        THEN ("$or" :> << Clause("title", q), Clause("company_name", q),
                          Clause("description", q) >>)
        ELSE <<>>)

\* FilterQuery that searches the tags for tag as it does for q.
FilterQuery_TagRegex(q, location, tag) ==
    ("is_active" :> [eq |-> TRUE])
    @@ (IF Truthy(location)
        THEN ("location" :> [regex |-> location, options |-> "i"])
        ELSE <<>>)
    @@ (IF Truthy(tag)
        THEN ("tags" :> [regex |-> tag, options |-> "i"])
        ELSE <<>>)
    @@ (IF Truthy(q)
        THEN ("$or" :> << Clause("title", q), Clause("company_name", q),
                          Clause("description", q), Clause("tags", q) >>)
        ELSE <<>>)

\* FilterQuery whose location search minds the letter case.
FilterQuery_LocationCaseSensitive(q, location, tag) ==
    ("is_active" :> [eq |-> TRUE])
    @@ (IF Truthy(location)
        THEN ("location" :> [regex |-> location, options |-> ""])
        ELSE <<>>)
    @@ (IF Truthy(tag) THEN ("tags" :> [in |-> <<tag>>]) ELSE <<>>)
    @@ (IF Truthy(q)
        THEN ("$or" :> << Clause("title", q), Clause("company_name", q),
                          Clause("description", q), Clause("tags", q) >>)
        ELSE <<>>)

\* The filter list_jobs builds from its query parameters.
FilterQuery(q, location, tag) ==
    ("is_active" :> [eq |-> TRUE])
    @@ (IF Truthy(location)
        THEN ("location" :> [regex |-> location, options |-> "i"])
        ELSE <<>>)
    @@ (IF Truthy(tag) THEN ("tags" :> [in |-> <<tag>>]) ELSE <<>>)
    @@ (IF Truthy(q)
        THEN ("$or" :> << Clause("title", q), Clause("company_name", q),
                          Clause("description", q), Clause("tags", q) >>)
        ELSE <<>>)

\* j["_id"] = str(j["_id"]) if "_id" in j else None
IdToStr(doc) ==
    IF "_id" \in DOMAIN doc
    THEN [doc EXCEPT !["_id"] = Str(@)]
    ELSE doc @@ ("_id" :> NoneValue)

\* PostedAtToIso that leaves the datetime as it is.
PostedAtToIso_Skip(doc) == doc

\* if "posted_at" in j and isinstance(j["posted_at"], datetime): isoformat
PostedAtToIso(doc) ==
    IF "posted_at" \in DOMAIN doc /\ IsDatetime(doc["posted_at"])
    THEN [doc EXCEPT !["posted_at"] = IsoFormat(@)]
    ELSE doc

NormalizeJob(doc) == PostedAtToIso(IdToStr(doc))

MapSeq(seq, Op(_)) == [i \in 1..Len(seq) |-> Op(seq[i])]

list_jobs(q, location, tag, limit) ==
    LET req == [Req("list_jobs") EXCEPT !.q = q, !.location = location,
                                        !.tag = tag, !.limit = limit]
    IN  IF db = None
        THEN NotConfigured(req)
        ELSE LET jobs == get_documents(job, FilterQuery(q, location, tag),
                                       limit)
             IN  /\ Respond(req,
                            [Resp(200) EXCEPT !.items = MapSeq(jobs, NormalizeJob)],
                            <<Call("find", "job")>>)
                 /\ UNCHANGED <<db, job, application, company, pc, local>>

---------------------------------------------------------------------------
(* POST /jobs *)

\* datetime.utcnow(): a logical clock, one tick per stored job.
utcnow(coll) == [dt |-> Len(coll) + 1]

\* job.model_dump(), with posted_at defaulted to datetime.utcnow()
JobData(payload, now) ==
    IF payload.posted_at = NoneValue
    THEN [payload EXCEPT !.posted_at = now]
    ELSE payload

\* create_job without the check of db.
create_job_Unchecked(payload) ==
    /\ Len(job) < MaxJobs
    /\ job' = create_document(job, JobData(payload, utcnow(job)))
    /\ Respond(Req("create_job"), [Resp(200) EXCEPT !.id = inserted_id(job)],
               <<Call("insert", "job")>>)
    /\ UNCHANGED <<db, application, company, pc, local>>

create_job(payload) ==
    LET req == Req("create_job")
    IN  IF db = None
        THEN NotConfigured(req)
        ELSE /\ Len(job) < MaxJobs
             /\ job' = create_document(job, JobData(payload, utcnow(job)))
             /\ Respond(req, [Resp(200) EXCEPT !.id = inserted_id(job)],
                        <<Call("insert", "job")>>)
             /\ UNCHANGED <<db, application, company, pc, local>>

---------------------------------------------------------------------------
(* GET /jobs/{job_id} *)

Return(value) == [raised |-> FALSE, value |-> value, exc |-> Resp(0)]
Raise(exc) == [raised |-> TRUE, value |-> <<>>, exc |-> exc]

InvalidId == [Resp(0) EXCEPT !.detail = "InvalidId"]

\* The body of the try block of get_job.
get_job_try(job_id) ==
    IF ~ValidOid(job_id)
    THEN Raise(InvalidId)
    ELSE LET doc == find_one(job, ObjectId(job_id))
         IN  IF doc = <<>>
             THEN Raise(HTTPException(404, "Job not found"))
             ELSE Return(NormalizeJob(doc[1]))

\* try: ... except Exception: raise HTTPException(400); HTTPException is an
\* Exception, so the handler catches whatever the body raises.
get_job_result(job_id) ==
    LET r == get_job_try(job_id)
    IN  IF r.raised
        THEN HTTPException(400, "Invalid job id")
        ELSE [Resp(200) EXCEPT !.items = <<r.value>>]

get_job(job_id) ==
    LET req == [Req("get_job") EXCEPT !.job_id = job_id]
    IN  IF db = None
        THEN NotConfigured(req)
        ELSE /\ Respond(req, get_job_result(job_id),
                        IF ValidOid(job_id) THEN <<Call("find_one", "job")>>
                                            ELSE <<>>)
             /\ UNCHANGED <<db, job, application, company, pc, local>>

---------------------------------------------------------------------------
(* POST /applications: two storage calls, other requests run in between *)

InFlight == Cardinality({w \in Workers : pc[w] = "create"})

\* submit_application_try that takes every well-formed job_id as found.
submit_application_try_NoLookup(apply) ==
    IF ~ValidOid(apply.job_id)
    THEN Raise(InvalidId)
    ELSE Return(apply)

\* The body of the try block of submit_application.
submit_application_try(apply) ==
    IF ~ValidOid(apply.job_id)
    THEN Raise(InvalidId)
    ELSE LET job_obj == find_one(job, ObjectId(apply.job_id))
         IN  IF job_obj = <<>>
             THEN Raise(HTTPException(404, "Job not found"))
             ELSE Return(job_obj[1])

NoApplication == [job_id |-> None, name |-> None, status |-> None]

\* Up to the end of the try / except: the lookup of the job.
submit_application_find(w, apply) ==
    LET req == [Req("submit_application") EXCEPT !.job_id = apply.job_id]
    IN  /\ pc[w] = "idle"
        /\ IF db = None
           THEN NotConfigured(req)
           ELSE LET r == submit_application_try(apply)
                    calls == IF ValidOid(apply.job_id)
                             THEN <<Call("find_one", "job")>> ELSE <<>>
                IN  IF r.raised
                    THEN /\ Respond(req, HTTPException(400, "Invalid job id"),
                                    calls)
                         /\ UNCHANGED <<db, job, application, company, pc,
                                        local>>
                    ELSE /\ Len(application) + InFlight < MaxApplications
                         /\ pc' = [pc EXCEPT ![w] = "create"]
                         /\ local' = [local EXCEPT ![w] = apply]
                         /\ Respond(req, Pending, calls)
                         /\ UNCHANGED <<db, job, application, company>>

\* app_id = create_document("application", apply); return {"id": app_id}
submit_application_create(w) ==
    /\ pc[w] = "create"
    /\ application' = create_document(application, local[w])
    /\ Respond([Req("submit_application") EXCEPT !.job_id = local[w].job_id],
               [Resp(200) EXCEPT !.id = inserted_id(application)],
               <<Call("insert", "application")>>)
    /\ pc' = [pc EXCEPT ![w] = "idle"]
    /\ local' = [local EXCEPT ![w] = NoApplication]
    /\ UNCHANGED <<db, job, company>>

---------------------------------------------------------------------------
(* GET /applications, POST /companies, GET /companies, GET / *)

ApplicationFilter(job_id) ==
    IF Truthy(job_id) THEN ("job_id" :> [eq |-> job_id]) ELSE <<>>

list_applications(job_id, limit) ==
    LET req == [Req("list_applications") EXCEPT !.job_id = job_id,
                                                !.limit = limit]
    IN  IF db = None
        THEN NotConfigured(req)
        ELSE LET apps == get_documents(application, ApplicationFilter(job_id),
                                       limit)
             IN  /\ Respond(req,
                            [Resp(200) EXCEPT !.items = MapSeq(apps, IdToStr)],
                            <<Call("find", "application")>>)
                 /\ UNCHANGED <<db, job, application, company, pc, local>>

create_company(payload) ==
    LET req == Req("create_company")
    IN  IF db = None
        THEN NotConfigured(req)
        ELSE /\ Len(company) < MaxCompanies
             /\ company' = create_document(company, payload)
             /\ Respond(req, [Resp(200) EXCEPT !.id = inserted_id(company)],
                        <<Call("insert", "company")>>)
             /\ UNCHANGED <<db, job, application, pc, local>>

list_companies(limit) ==
    LET req == [Req("list_companies") EXCEPT !.limit = limit]
    IN  IF db = None
        THEN NotConfigured(req)
        ELSE LET comps == get_documents(company, <<>>, limit)
             IN  /\ Respond(req,
                            [Resp(200) EXCEPT !.items = MapSeq(comps, IdToStr)],
                            <<Call("find", "company")>>)
                 /\ UNCHANGED <<db, job, application, company, pc, local>>

read_root ==
    /\ Respond(Req("read_root"),
               [Resp(200) EXCEPT !.detail = "Job Portal API is running"],
               <<>>)
    /\ UNCHANGED <<db, job, application, company, pc, local>>

---------------------------------------------------------------------------
(* GET /test *)

\* Collections of the database that this API does not own.
OtherCollections == << "c01", "c02", "c03", "c04", "c05", "c06", "c07",
                       "c08", "c09", "c10", "c11" >>

OwnCollections ==
    (IF job # <<>> THEN <<"job">> ELSE <<>>)
    \o (IF application # <<>> THEN <<"application">> ELSE <<>>)
    \o (IF company # <<>> THEN <<"company">> ELSE <<>>)

\* db.list_collection_names(): the names, or an exception when the server
\* cannot be reached.
list_collection_names(fails, n_other) ==
    IF fails
    THEN Raise([Resp(0) EXCEPT !.detail = "ServerSelectionTimeoutError"])
    ELSE Return(OwnCollections \o Take(OtherCollections, n_other))

EnvStatus(is_set) == IF is_set THEN "Set" ELSE "Not Set"

\* The inner try / except of test_database, entered when db is not None.
test_database_connected(diag, fails, n_other) ==
    LET r == list_collection_names(fails, n_other)
    IN  IF r.raised
        THEN [diag EXCEPT !.database = "Connected but Error",
                          !.connection_status = "Connected"]
        ELSE [diag EXCEPT !.database = "Connected & Working",
                          !.connection_status = "Connected",
                          !.collections = Take(r.value, 10)]

\* test_database_result that lets the listing's exception escape.
test_database_result_Uncaught(fails, n_other, url_set, name_set) ==
    IF db # None /\ fails
    THEN HTTPException(500, "Internal Server Error")
    ELSE [Resp(200) EXCEPT
             !.diag = [test_database_connected(NoDiag, fails, n_other) EXCEPT
                          !.database_url = EnvStatus(url_set),
                          !.database_name = EnvStatus(name_set)]]

\* The whole handler: the response is returned with status 200 on every path.
test_database_result(fails, n_other, url_set, name_set) ==
    LET initial == [database |-> "Not Available", database_url |-> "",
                    database_name |-> "",
                    connection_status |-> "Not Connected",
                    collections |-> <<>>]
        tried == IF db # None
                 THEN test_database_connected(initial, fails, n_other)
                 ELSE [initial EXCEPT
                           !.database = "Available but not initialized"]
    IN  [Resp(200) EXCEPT
            !.diag = [tried EXCEPT !.database_url = EnvStatus(url_set),
                                   !.database_name = EnvStatus(name_set)]]

test_database(fails, n_other, url_set, name_set) ==
    /\ Respond(Req("test_database"),
               test_database_result(fails, n_other, url_set, name_set),
               IF db # None THEN <<Call("list_collection_names", "")>>
                            ELSE <<>>)
    /\ UNCHANGED <<db, job, application, company, pc, local>>

---------------------------------------------------------------------------
(* Inputs *)

AB == <<"a", "b">>
UpperAb == <<"A", "b">>
CAb == <<"c", "A", "b">>
Acb == <<"a", "c", "b">>
ADotB == <<"a", ".", "b">>
X == <<"x">>

BaseJob == [title |-> X, company_name |-> X, location |-> X,
            description |-> X, tags |-> <<>>, is_active |-> TRUE,
            posted_at |-> NoneValue]

\* Job payloads of the whole-API specification.
JobInputs ==
    { [BaseJob EXCEPT !.title = CAb, !.location = CAb, !.tags = <<AB>>],
      [BaseJob EXCEPT !.title = CAb, !.location = CAb, !.tags = <<AB>>,
                      !.is_active = FALSE, !.posted_at = [dt |-> 1]] }

\* Job payloads of the filter specification: one field at a time carries a
\* text that the searches below hit or narrowly miss.
FilterJobInputs ==
    { [BaseJob EXCEPT !.title = CAb],
      [BaseJob EXCEPT !.title = Acb, !.location = Acb],
      [BaseJob EXCEPT !.company_name = CAb],
      [BaseJob EXCEPT !.description = CAb],
      [BaseJob EXCEPT !.tags = <<UpperAb, CAb>>],
      [BaseJob EXCEPT !.title = ADotB, !.location = CAb, !.tags = <<X, AB>>],
      [BaseJob EXCEPT !.title = CAb, !.location = CAb, !.tags = <<AB>>,
                      !.is_active = FALSE] }

\* (q, location, tag, limit) of the whole-API specification.
ListJobsInputs == { <<None, None, None, DefaultJobLimit>>,
                    <<AB, <<>>, None, 1>>,
                    <<<<>>, AB, AB, DefaultJobLimit>> }

FilterQInputs == {None, AB, ADotB}
FilterLocationInputs == {None, AB, ADotB}
FilterTagInputs == {None, <<>>, AB}
FilterLimitInputs == {1, DefaultJobLimit}

Malformed == {[i \in 1..OidLen |-> "z"], <<"0">>}

\* Identifiers of stored jobs, one well-formed identifier that is never
\* assigned, and malformed strings.
JobIdInputs == {NthId(n) : n \in 0..MaxJobs} \cup Malformed

ApplicationInputs ==
    {[job_id |-> id, name |-> X, status |-> <<"s">>] : id \in JobIdInputs}

ApplicationFilterInputs == {None, NthId(1)}

CompanyInputs == {[name |-> X]}

ListLimitInputs == {1, DefaultListLimit}

OtherCountInputs == {0, Len(OtherCollections)}

---------------------------------------------------------------------------
(* The API under concurrent requests *)

Init ==
    /\ db \in {None, Database}
    /\ job = <<>>
    /\ application = <<>>
    /\ company = <<>>
    /\ pc = [w \in Workers |-> "idle"]
    /\ local = [w \in Workers |-> NoApplication]
    /\ request = Req("startup")
    /\ response = Pending
    /\ storage_calls = <<>>

Next ==
    \/ \E args \in ListJobsInputs :
          list_jobs(args[1], args[2], args[3], args[4])
    \/ \E payload \in JobInputs : create_job(payload)
    \/ \E job_id \in JobIdInputs : get_job(job_id)
    \/ \E w \in Workers, apply \in ApplicationInputs :
          submit_application_find(w, apply)
    \/ \E w \in Workers : submit_application_create(w)
    \/ \E job_id \in ApplicationFilterInputs, limit \in ListLimitInputs :
          list_applications(job_id, limit)
    \/ \E payload \in CompanyInputs : create_company(payload)
    \/ \E limit \in ListLimitInputs : list_companies(limit)
    \/ read_root
    \/ \E fails \in BOOLEAN, n_other \in OtherCountInputs,
          env_set \in BOOLEAN :
          test_database(fails, n_other, env_set, env_set)

Spec == Init /\ [][Next]_vars

---------------------------------------------------------------------------
(* The listing over stores of jobs that POST /jobs can build *)

RECURSIVE BuildJobs(_)
\* The job collection after create_job ran for each payload in turn.
BuildJobs(payloads) ==
    IF payloads = <<>> THEN <<>>
    ELSE LET before == BuildJobs(SubSeq(payloads, 1, Len(payloads) - 1))
         IN  create_document(before,
                             JobData(payloads[Len(payloads)], utcnow(before)))

PayloadSeqs == UNION {[1..n -> FilterJobInputs] : n \in 0..MaxJobs}

InitFilter ==
    /\ db = Database
    /\ \E payloads \in PayloadSeqs : job = BuildJobs(payloads)
    /\ application = <<>>
    /\ company = <<>>
    /\ pc = [w \in Workers |-> "idle"]
    /\ local = [w \in Workers |-> NoApplication]
    /\ request = Req("startup")
    /\ response = Pending
    /\ storage_calls = <<>>

NextFilter ==
    \E q \in FilterQInputs, location \in FilterLocationInputs,
       tag \in FilterTagInputs, limit \in FilterLimitInputs :
       list_jobs(q, location, tag, limit)

SpecFilter == InitFilter /\ [][NextFilter]_vars

---------------------------------------------------------------------------
(* Vocabulary of the properties *)

\* sub occurs in s as a substring, letter case ignored.
ContainsCI(s, sub) ==
    \E i \in 1..(Len(s) - Len(sub) + 1) :
        \A k \in 1..Len(sub) : Lower(s[i + k - 1]) = Lower(sub[k])

\* Characters a regular expression does not take literally.
RegexMeta == {"."}

Plain(s) == \A i \in 1..Len(s) : s[i] \notin RegexMeta

HasTag(doc, tag) == \E i \in 1..Len(doc.tags) : doc.tags[i] = tag

\* The q clause as the specification words it.
QClause(doc, q) ==
    \/ ContainsCI(doc.title, q)
    \/ ContainsCI(doc.company_name, q)
    \/ ContainsCI(doc.description, q)
    \/ \E i \in 1..Len(doc.tags) : ContainsCI(doc.tags[i], q)

\* The q clause as a search for the pattern q.
QPattern(doc, q) ==
    \/ RegexSearch(q, "i", doc.title)
    \/ RegexSearch(q, "i", doc.company_name)
    \/ RegexSearch(q, "i", doc.description)
    \/ \E i \in 1..Len(doc.tags) : RegexSearch(q, "i", doc.tags[i])

RECURSIVE Keep(_, _)
\* The elements of seq whose position is in the set, in order.
Keep(seq, positions) ==
    IF seq = <<>> THEN <<>>
    ELSE Keep(SubSeq(seq, 1, Len(seq) - 1), positions)
         \o (IF Len(seq) \in positions THEN <<seq[Len(seq)]>> ELSE <<>>)

\* The listing a search must produce when exactly the jobs at the given
\* positions qualify: those jobs, in storage order, cut at limit, each
\* with its identifier and its date as text.
Listing(positions, limit) ==
    LET found == Take(Keep(job, positions), limit)
    IN  [i \in 1..Len(found) |->
            [found[i] EXCEPT !["_id"] = [str |-> found[i]["_id"].oid],
                             !["posted_at"] =
                                 [str |-> <<"T">> \o TimeDigits(@.dt)]]]

Listed == request.op = "list_jobs" /\ response.status = 200

StorageOps == {"list_jobs", "create_job", "get_job", "submit_application",
               "list_applications", "create_company", "list_companies"}

ReadOps == {"list_jobs", "get_job", "list_applications", "list_companies"}

Stored(job_id) == \E i \in 1..Len(job) : job[i]["_id"] = [oid |-> job_id]

IsPrefix(a, b) == Len(a) <= Len(b) /\ SubSeq(b, 1, Len(a)) = a

---------------------------------------------------------------------------
(* Properties *)

\* C1: with storage configured, GET /jobs/{id} answers 404 for a
\* well-formed id that no stored job has and 400 for a malformed id.
C1_GetJobStatus ==
    (request.op = "get_job" /\ db # None) =>
        /\ (ValidOid(request.job_id) /\ ~Stored(request.job_id))
               => response.status = 404
        /\ ~ValidOid(request.job_id) => response.status = 400

\* C2: with storage configured, POST /applications with a well-formed
\* job_id that no stored job has answers 404.
C2_SubmitMissingJob ==
    (/\ request.op = "submit_application"
     /\ db # None
     /\ ValidOid(request.job_id)
     /\ ~Stored(request.job_id)) => response.status = 404

\* C3: every job GET /jobs returns has is_active = TRUE, whatever q,
\* location, tag and limit are.
C3_OnlyActiveListed ==
    Listed => \A i \in 1..Len(response.items) :
                  response.items[i].is_active = TRUE

C3_Witness ==
    /\ Listed
    /\ Truthy(request.q) /\ Truthy(request.location) /\ Truthy(request.tag)
    /\ response.items # <<>>
    /\ \E i \in 1..Len(job) :
          /\ ~job[i].is_active
          /\ QClause(job[i], request.q)
          /\ ContainsCI(job[i].location, request.location)
          /\ HasTag(job[i], request.tag)

\* The jobs that pass every supplied filter, the q clause read as a
\* substring test.
C4_Qualifying(q, location, tag) ==
    {i \in 1..Len(job) :
        /\ job[i].is_active
        /\ QClause(job[i], q)
        /\ Truthy(location) => RegexSearch(location, "i", job[i].location)
        /\ Truthy(tag) => HasTag(job[i], tag)}

\* C4 as stated: for every given q, GET /jobs returns the jobs that are
\* active, contain q as a case-insensitive substring in title,
\* company_name, description or a tag, and pass the location and tag filters.
C4_Original ==
    (Listed /\ Truthy(request.q)) =>
        response.items =
            Listing(C4_Qualifying(request.q, request.location, request.tag),
                    request.limit)

\* C4 amended: the same for every given q without regex metacharacters.
C4_PlainQ ==
    (Listed /\ Truthy(request.q) /\ Plain(request.q)) =>
        response.items =
            Listing(C4_Qualifying(request.q, request.location, request.tag),
                    request.limit)

C4_Witness ==
    /\ Listed
    /\ Truthy(request.q) /\ Plain(request.q) /\ Truthy(request.location)
    /\ Len(response.items) = 1
    /\ \E i \in 1..Len(job) :
          /\ job[i].is_active
          /\ QClause(job[i], request.q)
          /\ ~ContainsCI(job[i].location, request.location)
    /\ \E i \in 1..Len(job) :
          /\ job[i].is_active
          /\ ~ContainsCI(job[i].title, request.q)
          /\ \E k \in 1..Len(job[i].tags) :
                ContainsCI(job[i].tags[k], request.q)

\* C5: when tag is given, every job GET /jobs returns has an element of
\* tags equal to tag, also when q is given and matches other tags loosely.
C5_ExactTag ==
    (Listed /\ Truthy(request.tag)) =>
        \A i \in 1..Len(response.items) :
            HasTag(response.items[i], request.tag)

C5_Witness ==
    /\ Listed
    /\ Truthy(request.tag) /\ Truthy(request.q)
    /\ response.items # <<>>
    /\ \E i \in 1..Len(job) :
          /\ job[i].is_active
          /\ QClause(job[i], request.q)
          /\ ~HasTag(job[i], request.tag)
          /\ \E k \in 1..Len(job[i].tags) :
                ContainsCI(job[i].tags[k], request.tag)

\* The jobs that pass every supplied filter, the location filter read as
\* a substring test.
C6_Qualifying(q, location, tag) ==
    {i \in 1..Len(job) :
        /\ job[i].is_active
        /\ ContainsCI(job[i].location, location)
        /\ Truthy(q) => QPattern(job[i], q)
        /\ Truthy(tag) => HasTag(job[i], tag)}

\* C6 as stated: for every given location, GET /jobs returns the active
\* jobs whose location contains it as a case-insensitive substring (and
\* that pass the other filters, up to limit), and no other job.
C6_Original ==
    (Listed /\ Truthy(request.location)) =>
        response.items =
            Listing(C6_Qualifying(request.q, request.location, request.tag),
                    request.limit)

\* C6 amended: the same for every given location without regex
\* metacharacters.
C6_PlainLocation ==
    (Listed /\ Truthy(request.location) /\ Plain(request.location)) =>
        response.items =
            Listing(C6_Qualifying(request.q, request.location, request.tag),
                    request.limit)

C6_Witness ==
    /\ Listed
    /\ Truthy(request.location) /\ Plain(request.location)
    /\ request.q = None /\ request.tag = None
    /\ Len(response.items) = 1
    /\ response.items[1].location # request.location
    /\ \E i \in 1..Len(job) :
          job[i].is_active /\ ~ContainsCI(job[i].location, request.location)

\* C7: while db is None every storage-backed handler answers 500
\* "Database not configured" without a storage call, the collections stay
\* as they were, and GET / and GET /test answer 200.
C7_FailFastUnconfigured ==
    db = None =>
        /\ job = <<>> /\ application = <<>> /\ company = <<>>
        /\ storage_calls = <<>>
        /\ \A w \in Workers : pc[w] = "idle"
        /\ request.op \in StorageOps =>
               response = HTTPException(500, "Database not configured")
        /\ request.op \in {"read_root", "test_database"} =>
               response.status = 200

C7_Witness ==
    /\ db = None
    /\ request.op = "submit_application"
    /\ ValidOid(request.job_id)
    /\ response.status = 500

\* C8: every document a list or detail endpoint returns has a string _id
\* and a textual posted_at, and normalizing it again changes nothing.
C8_Normalized ==
    (request.op \in ReadOps /\ response.status = 200) =>
        \A i \in 1..Len(response.items) :
            LET doc == response.items[i]
            IN  /\ IsStr(doc["_id"])
                /\ "posted_at" \in DOMAIN doc => IsStr(doc["posted_at"])
                /\ NormalizeJob(doc) = doc

C8_Witness ==
    /\ request.op = "list_jobs"
    /\ response.status = 200
    /\ Len(response.items) = 2
    /\ \E i \in 1..Len(job) : job[i].posted_at = [dt |-> 2]

\* C9: GET /test answers 200 in every storage state, reports a failure
\* of the listing as a status string and reports at most 10 collections.
C9_TestNeverFails ==
    request.op = "test_database" =>
        /\ response.status = 200
        /\ Len(response.diag.collections) <= 10
        /\ response.diag.database \in
               {"Available but not initialized", "Connected but Error",
                "Connected & Working"}
        /\ db = None <=>
               response.diag.database = "Available but not initialized"

C9_Witness ==
    /\ request.op = "test_database"
    /\ db # None
    /\ job # <<>>
    /\ Len(response.diag.collections) = 10

\* C10: every stored application names a stored job, and the job
\* collection only grows.
C10_ApplicationsReferToJobs ==
    /\ [](\A i \in 1..Len(application) : Stored(application[i].job_id))
    /\ [][IsPrefix(job, job')]_vars

C10_Witness ==
    /\ Len(application) = 1
    /\ Len(job) = 2
    /\ application[1].job_id = NthId(1)
    /\ \E w \in Workers : pc[w] = "create" /\ local[w].job_id = NthId(2)

=============================================================================
